---- MODULE Spec2Model ----
(***************************************************************************)
(* A model of salmon's LinearModel (src/salmon/model.py): the term         *)
(* encoder extract_columns with its categorical level registry, the        *)
(* least-squares fit with its stored artifacts, and the readers predict,   *)
(* r_squared / score and confidence_intervals.                             *)
(*                                                                         *)
(* Numbers are exact: a rational is a pair <<numerator, denominator>> in   *)
(* lowest terms with a positive denominator; a zero denominator stands for *)
(* the non-finite floats (nan, inf) that a division by zero produces.      *)
(* Square roots and distribution quantiles are kept symbolic: a record     *)
(* names the function and holds its exact arguments.                       *)
(***************************************************************************)
EXTENDS Integers, Sequences, FiniteSets, TLC

(***************************************************************************)
(* Bounds of the model.                                                    *)
(***************************************************************************)
MaxRows == 4
MaxPredictRows == 1
MaxEncoderRows == 3

(***************************************************************************)
(* Data: a table is a sequence of rows, a row maps column names to values. *)
(***************************************************************************)
None == <<"<None>">>
Other == "~other~"

AllRows ==
  << [x |-> 0, g |-> "a", h |-> "u", y |-> 0],
     [x |-> 1, g |-> "b", h |-> "u", y |-> 1],
     [x |-> 1, g |-> "c", h |-> "v", y |-> 3],
     [x |-> 2, g |-> "b", h |-> "v", y |-> 1] >>

RECURSIVE Pick(_, _)
\* the rows of AllRows whose index is in S, in index order
Pick(S, i) ==
  IF i > Len(AllRows) THEN <<>>
  ELSE (IF i \in S THEN <<AllRows[i]>> ELSE <<>>) \o Pick(S, i + 1)

\* the tables of 1..k rows drawn from the first m rows of AllRows
TablesUpTo(k, m) ==
  {Pick(S, 1) : S \in {T \in SUBSET (1..m) : Cardinality(T) \in 1..k}}

Tables == TablesUpTo(MaxRows, 4)
PredictTables == TablesUpTo(MaxPredictRows, 4)
EncoderTables == TablesUpTo(MaxEncoderRows, 3)

\* list(data): the column names of a DataFrame
ColumnsOf(data) == IF Len(data) = 0 THEN {} ELSE DOMAIN data[1]

\* the order Python gives the level strings ('~' sorts after the letters)
LevelRank(l) ==
  CASE l = "a" -> 1 [] l = "b" -> 2 [] l = "c" -> 3
    [] l = "u" -> 4 [] l = "v" -> 5 [] OTHER -> 6

Range(s) == {s[i] : i \in DOMAIN s}

RECURSIVE UniqueFrom(_, _)
\* Series.unique(): the values in order of first appearance
UniqueFrom(s, i) ==
  IF i > Len(s) THEN <<>>
  ELSE LET rest == UniqueFrom(s, i + 1)
       IN  <<s[i]>> \o SelectSeq(rest, LAMBDA v : v # s[i])

Column(data, name) == [i \in 1..Len(data) |-> data[i][name]]
Unique(data, name) == UniqueFrom(Column(data, name), 1)
SortLevels(s) == SortSeq(s, LAMBDA p, q : LevelRank(p) < LevelRank(q))

(***************************************************************************)
(* Terms of the expression collaborator.  A column name is the sequence of *)
(* its brace-delimited operands: <<"x">> is x, <<"g::a", "h::u">> is       *)
(* {g::a}{h::u}.                                                           *)
(***************************************************************************)
Q(n) == [type |-> "Quantitative", name |-> n, method |-> "", terms |-> <<>>]
C(n) == [type |-> "Categorical", name |-> n, method |-> "one-hot", terms |-> <<>>]
COrdinal(n) == [type |-> "Categorical", name |-> n, method |-> "ordinal", terms |-> <<>>]
Interaction(ts) == [type |-> "Interaction", name |-> "", method |-> "", terms |-> ts]
Combination(ts) == [type |-> "Combination", name |-> "", method |-> "", terms |-> ts]

\* str(expr) of a Quantitative or Categorical term
Str(expr) == expr.name

\* LinearModel.transform(expr, columns): the terms here carry no value transform
Transform(expr, frame) == frame

\* pd.concat(columns, axis = 1)
ConcatFrames(f1, f2) ==
  [names |-> f1.names \o f2.names,
   rows  |-> [i \in DOMAIN f1.rows |-> f1.rows[i] \o f2.rows[i]]]

\* the frame restricted to the column positions keep (a sequence of indices)
SelectColumns(frame, keep) ==
  [names |-> [j \in DOMAIN keep |-> frame.names[keep[j]]],
   rows  |-> [i \in DOMAIN frame.rows |-> [j \in DOMAIN keep |-> frame.rows[i][keep[j]]]]]

Indices(n) == [j \in 1..n |-> j]

(***************************************************************************)
(* extract_columns.  A result is the returned frame (or the exception, or  *)
(* the None of a fall-through) together with the registry                  *)
(* self.categorical_levels and the terms' levels attributes as the call    *)
(* leaves them.                                                            *)
(***************************************************************************)
Result(status, frame, reg, tl) ==
  [status |-> status, frame |-> frame, reg |-> reg, tl |-> tl]

NoFrame == [names |-> <<>>, rows |-> <<>>]

\* self.categorical_levels[key] = levels
RegistryPut(reg, key, levels) ==
  [n \in DOMAIN reg \cup {key} |-> IF n = key THEN levels ELSE reg[n]]

\* lines 553-573: the level list of a categorical term and the catch-all flag;
\* an explicit level list is the term's own list object and is edited in place
ResolveLevels(expr, data, reg, tl) ==
  IF expr.name \in DOMAIN reg
  THEN [levels |-> reg[expr.name], other_flag |-> FALSE, tl |-> tl]
  ELSE IF tl[expr.name] = None
  THEN [levels |-> SortLevels(Unique(data, expr.name)), other_flag |-> FALSE, tl |-> tl]
  ELSE LET data_levels == Range(Unique(data, expr.name))
           kept   == SelectSeq(tl[expr.name], LAMBDA l : l \in data_levels)
           extra  == \E l \in data_levels : l \notin Range(kept)
           levels == IF extra THEN Append(kept, Other) ELSE kept
       IN  [levels |-> levels, other_flag |-> extra,
            tl |-> [tl EXCEPT ![expr.name] = levels]]

SumSeq(s) == LET RECURSIVE Go(_)
                 Go(i) == IF i > Len(s) THEN 0 ELSE s[i] + Go(i + 1)
             IN  Go(1)

\* lines 578-583: the indicator columns of levels[:last_index], the ~other~
\* column of the rows that have no 1 yet, in the order of levels.  A frame built
\* from no indicator column has no rows, and so has its ~other~ column.
OneHotFrame(expr, data, levels, other_flag) ==
  LET last_index == IF other_flag THEN Len(levels) - 1 ELSE Len(levels)
      n     == IF last_index = 0 /\ other_flag THEN 0 ELSE Len(data)
      ind(i) == [j \in 1..last_index |-> IF data[i][expr.name] = levels[j] THEN 1 ELSE 0]
  IN  [names |-> [j \in 1..Len(levels) |-> <<expr.name \o "::" \o levels[j]>>],
       rows  |-> [i \in 1..n |->
                    IF other_flag
                    THEN Append(ind(i), IF SumSeq(ind(i)) = 0 THEN 1 ELSE 0)
                    ELSE ind(i)]]

\* a slip: the last column is dropped instead of the named one
DropLastColumn(frame, name) ==
  SelectColumns(frame, Indices(Len(frame.names) - 1))

\* columns.drop(name, axis = 1)
DropColumn(frame, name) ==
  SelectColumns(frame, SelectSeq(Indices(Len(frame.names)),
                                 LAMBDA j : frame.names[j] # name))

\* lines 549-588
CategoricalColumns(expr, data, drop_dummy, update_levels, reg, tl) ==
  IF expr.name \notin ColumnsOf(data)
  THEN Result("missing-variable", NoFrame, reg, tl)
  ELSE LET r    == ResolveLevels(expr, data, reg, tl)
           reg2 == IF update_levels THEN RegistryPut(reg, Str(expr), r.levels) ELSE reg
           cols == OneHotFrame(expr, data, r.levels, r.other_flag)
       IN  IF expr.method # "one-hot"
           THEN Result("none", NoFrame, reg2, r.tl)
           ELSE IF drop_dummy
           THEN Result("ok", DropColumn(cols, <<expr.name \o "::" \o r.levels[1]>>),
                       reg2, r.tl)
           ELSE Result("ok", cols, reg2, r.tl)

\* lines 544-547
QuantitativeColumns(expr, data, reg, tl) ==
  IF expr.name \notin ColumnsOf(data)
  THEN Result("missing-variable", NoFrame, reg, tl)
  ELSE Result("ok",
              Transform(expr, [names |-> << <<Str(expr)>> >>,
                               rows  |-> [i \in 1..Len(data) |-> <<data[i][expr.name]>>]]),
              reg, tl)

\* lines 528-534: every column of product times every column of col
CrossFrames(product, col) ==
  LET np == Len(product.names)
      nc == Len(col.names)
      pi(k) == ((k - 1) \div nc) + 1
      ci(k) == ((k - 1) % nc) + 1
  IN  [names |-> [k \in 1..(np * nc) |-> product.names[pi(k)] \o col.names[ci(k)]],
       rows  |-> [i \in DOMAIN product.rows |->
                    [k \in 1..(np * nc) |-> product.rows[i][pi(k)] * col.rows[i][ci(k)]]]]

\* line 537: product.loc[:, (product != 0).any(axis = 0)]
DropZeroColumns(frame) ==
  SelectColumns(frame, SelectSeq(Indices(Len(frame.names)),
                                 LAMBDA j : \E i \in DOMAIN frame.rows : frame.rows[i][j] # 0))

\* a slip: the first column is dropped even when it is the only one left
InteractionResultWithoutFirst(expr, product, multicolinearity_drop) ==
  LET pruned == IF multicolinearity_drop THEN DropZeroColumns(product) ELSE product
  IN  SelectColumns(pruned, [j \in 1..(Len(pruned.names) - 1) |-> j + 1])

\* lines 536-542
InteractionResult(expr, product, multicolinearity_drop) ==
  LET pruned == IF multicolinearity_drop THEN DropZeroColumns(product) ELSE product
  IN  IF Len(pruned.names) > 1
      THEN SelectColumns(pruned, [j \in 1..(Len(pruned.names) - 1) |-> j + 1])
      ELSE Transform(expr, pruned)

RECURSIVE ExtractColumns(_, _, _, _, _, _, _)
RECURSIVE ExtractEach(_, _, _, _, _, _, _, _)

\* the frames of the sub-terms from the first of them, r, on
EachResult(r, rest) ==
  [status |-> rest.status,
   frames |-> IF rest.status = "ok"
              THEN <<[status |-> r.status, frame |-> r.frame]>> \o rest.frames
              ELSE <<>>,
   reg |-> rest.reg, tl |-> rest.tl]

\* a sub-term that raised ends the comprehension
EachAfter(r, ts, i, data, drop_dummy, update_levels, multicolinearity_drop) ==
  IF r.status \notin {"ok", "none"}
  THEN [status |-> r.status, frames |-> <<>>, reg |-> r.reg, tl |-> r.tl]
  ELSE EachResult(r, ExtractEach(ts, i + 1, data, drop_dummy, update_levels,
                                 multicolinearity_drop, r.reg, r.tl))

\* the list comprehensions of lines 519 and 523: the sub-terms in order, each
\* call seeing the registry as the calls before it left it
ExtractEach(ts, i, data, drop_dummy, update_levels, multicolinearity_drop, reg, tl) ==
  IF i > Len(ts)
  THEN [status |-> "ok", frames |-> <<>>, reg |-> reg, tl |-> tl]
  ELSE EachAfter(ExtractColumns(ts[i], data, drop_dummy, update_levels,
                                multicolinearity_drop, reg, tl),
                 ts, i, data, drop_dummy, update_levels, multicolinearity_drop)

RECURSIVE FoldFrames(_, _, _, _)
FoldFrames(Op(_, _), frames, i, acc) ==
  IF i > Len(frames) THEN acc
  ELSE FoldFrames(Op, frames, i + 1, Op(acc, frames[i].frame))

\* lines 516-524: the frames rs of the terms of a Combination, side by side
CombinationColumns(rs) ==
  \* pd.concat skips the None entries and rejects a list of nothing else
  LET real == SelectSeq(rs.frames, LAMBDA f : f.status = "ok")
  IN  IF rs.status # "ok" THEN Result(rs.status, NoFrame, rs.reg, rs.tl)
      ELSE IF Len(real) = 0 THEN Result("concat-error", NoFrame, rs.reg, rs.tl)
      \* frames of different row counts concatenate to missing values
      ELSE IF \E k \in DOMAIN real : Len(real[k].frame.rows) # Len(real[1].frame.rows)
      THEN Result("nan", NoFrame, rs.reg, rs.tl)
      ELSE Result("ok", FoldFrames(ConcatFrames, real, 2, real[1].frame),
                  rs.reg, rs.tl)

\* lines 526-542: the frames rs of the terms of an Interaction, multiplied
InteractionColumns(expr, rs, multicolinearity_drop) ==
  IF rs.status # "ok" THEN Result(rs.status, NoFrame, rs.reg, rs.tl)
  ELSE IF \E k \in DOMAIN rs.frames : rs.frames[k].status = "none"
  THEN Result("type-error", NoFrame, rs.reg, rs.tl)
  \* operands of different row counts multiply to missing values
  ELSE IF \E k \in DOMAIN rs.frames :
            Len(rs.frames[k].frame.rows) # Len(rs.frames[1].frame.rows)
  THEN Result("nan", NoFrame, rs.reg, rs.tl)
  ELSE Result("ok",
              InteractionResult(expr,
                FoldFrames(CrossFrames, rs.frames, 2, rs.frames[1].frame),
                multicolinearity_drop),
              rs.reg, rs.tl)

\* lines 514-591
ExtractColumns(expr, data, drop_dummy, update_levels, multicolinearity_drop, reg, tl) ==
  CASE expr.type = "Combination" ->
         CombinationColumns(ExtractEach(expr.terms, 1, data, drop_dummy, update_levels,
                                        multicolinearity_drop, reg, tl))
    [] expr.type = "Interaction" ->
         InteractionColumns(expr,
                            ExtractEach(expr.terms, 1, data, FALSE, update_levels,
                                        multicolinearity_drop, reg, tl),
                            multicolinearity_drop)
    [] expr.type = "Quantitative" -> QuantitativeColumns(expr, data, reg, tl)
    [] expr.type = "Categorical" ->
         CategoricalColumns(expr, data, drop_dummy, update_levels, reg, tl)
    [] OTHER -> Result("unsupported-expression", NoFrame, reg, tl)

(***************************************************************************)
(* Exact arithmetic.  NonFinite absorbs: it is what numpy gives for x / 0  *)
(* and for every operation on such a value.                                *)
(***************************************************************************)
Abs(n) == IF n < 0 THEN -n ELSE n

RECURSIVE Gcd(_, _)
Gcd(a, b) == IF b = 0 THEN a ELSE Gcd(b, a % b)

NonFinite == <<0, 0>>
IsFinite(r) == r[2] # 0

Rat(n, d) ==
  IF d = 0 THEN NonFinite
  ELSE IF d = 1 THEN <<n, 1>>
  ELSE LET g == Gcd(Abs(n), Abs(d))
           s == IF d < 0 THEN -1 ELSE 1
       IN  <<s * (n \div g), s * (d \div g)>>

Int2Rat(n) == <<n, 1>>
RAdd(a, b) == IF IsFinite(a) /\ IsFinite(b)
              THEN (IF a[2] = b[2] THEN Rat(a[1] + b[1], a[2])
                    ELSE Rat(a[1] * b[2] + b[1] * a[2], a[2] * b[2]))
              ELSE NonFinite
RNeg(a) == IF IsFinite(a) THEN <<-a[1], a[2]>> ELSE NonFinite
RSub(a, b) == RAdd(a, RNeg(b))
RMul(a, b) == IF IsFinite(a) /\ IsFinite(b)
              THEN (IF a[1] = 0 \/ b[1] = 0 THEN <<0, 1>>
                    ELSE Rat(a[1] * b[1], a[2] * b[2]))
              ELSE NonFinite
RDiv(a, b) == IF IsFinite(a) /\ IsFinite(b)
              THEN Rat(a[1] * b[2], a[2] * b[1]) ELSE NonFinite

RSum(s) == LET RECURSIVE Go(_)
               Go(i) == IF i > Len(s) THEN Int2Rat(0) ELSE RAdd(s[i], Go(i + 1))
           IN  Go(1)

\* the dot product of two sequences of rationals
RDot(u, v) == RSum([k \in DOMAIN u |-> RMul(u[k], v[k])])

\* a matrix is a sequence of rows; MatT(m, k) is the transpose of a matrix of k columns
MatT(m, k) == [j \in 1..k |-> [i \in DOMAIN m |-> m[i][j]]]
MatMul(a, b, k) ==
  LET bt == MatT(b, k)
  IN  [i \in DOMAIN a |-> [j \in 1..k |-> RDot(a[i], bt[j])]]

\* the matrix without row i and column j
Minor(m, i, j) ==
  LET n == Len(m)
      skip(k, d) == IF k < d THEN k ELSE k + 1
  IN  [r \in 1..(n - 1) |-> [c \in 1..(n - 1) |-> m[skip(r, i)][skip(c, j)]]]

RECURSIVE Det(_)
Det(m) ==
  IF Len(m) = 0 THEN Int2Rat(1)
  ELSE RSum([j \in 1..Len(m) |->
               RMul(RMul(Int2Rat(IF j % 2 = 1 THEN 1 ELSE -1), m[1][j]),
                    Det(Minor(m, 1, j)))])

\* np.linalg.solve(a, b) for a square a and a b of k columns: the exact solution,
\* or the LinAlgError of a singular a
Solve(a, b, k) ==
  LET n == Len(a)
      d == Det(a)
      inv == [i \in 1..n |-> [j \in 1..n |->
                RDiv(RMul(Int2Rat(IF (i + j) % 2 = 0 THEN 1 ELSE -1),
                          Det(Minor(a, j, i))), d)]]
  IN  IF d = Int2Rat(0)
      THEN [status |-> "singular", x |-> <<>>]
      ELSE [status |-> "ok", x |-> MatMul(inv, b, k)]

(***************************************************************************)
(* The state: the fields of one LinearModel instance, the levels           *)
(* attributes of its Categorical terms, the position and locals of a       *)
(* running _fit, and what the last call returned or raised.                *)
(***************************************************************************)
VARIABLES given_ex, intercept, given_levels, term_levels,
          categorical_levels, training_data, ex, re,
          training_x, training_x_means, training_y, training_y_mean,
          bhat, fitted, residuals,
          std_err_est, var, std_err_vars, t_vals, p_vals,
          pc, local, out

config == <<given_ex, intercept, given_levels>>
artifacts == <<training_data, ex, re,
               training_x, training_x_means, training_y, training_y_mean,
               bhat, fitted, residuals,
               std_err_est, var, std_err_vars, t_vals, p_vals>>
vars == <<given_ex, intercept, given_levels, term_levels,
          categorical_levels, training_data, ex, re,
          training_x, training_x_means, training_y, training_y_mean,
          bhat, fitted, residuals,
          std_err_est, var, std_err_vars, t_vals, p_vals,
          pc, local, out>>

CatNames == {"g", "h"}
Unset == [unset |-> TRUE]
EmptyRegistry == [n \in {} |-> <<>>]

\* the explicit level lists a Categorical("g", levels = ...) is built with
EncoderLevelLists == {None, <<"b", "a">>}

\* lines 28-52: the fields after construction
Constructed(formula, icpt, levels) ==
  /\ given_ex = formula
  /\ intercept = icpt
  /\ given_levels = levels
  /\ term_levels = levels
  /\ categorical_levels = EmptyRegistry
  /\ training_data = Unset /\ ex = Unset /\ re = Unset
  /\ training_x = Unset /\ training_y = Unset
  /\ training_x_means = Unset /\ training_y_mean = Unset
  /\ bhat = Unset /\ fitted = Unset /\ residuals = Unset
  /\ std_err_est = Unset /\ var = Unset /\ std_err_vars = Unset
  /\ t_vals = Unset /\ p_vals = Unset
  /\ pc = "idle" /\ local = Unset /\ out = Unset

(***************************************************************************)
(* The caller's side of a call: out holds what the last call returned or   *)
(* raised until the caller takes it, and the caller makes its next call    *)
(* after that.                                                             *)
(***************************************************************************)
Waiting == out = Unset

TakeResult ==
  /\ out # Unset
  /\ out' = Unset
  /\ UNCHANGED <<config, term_levels, categorical_levels, artifacts, pc, local>>

(***************************************************************************)
(* The encoder called directly: extract_columns is a public method.        *)
(***************************************************************************)
\* the calls made: <<expr, drop_dummy, multicolinearity_drop>>, each flag varied
\* where the term reads it
EncoderCalls ==
  { <<C("g"), TRUE, TRUE>>,
    <<C("g"), FALSE, TRUE>>,
    <<COrdinal("g"), TRUE, TRUE>>,
    <<Interaction(<<C("g"), C("h")>>), TRUE, TRUE>>,
    <<Interaction(<<C("g"), C("h")>>), TRUE, FALSE>>,
    <<Combination(<<Q("x"), C("g")>>), TRUE, TRUE>> }

InitEnc ==
  \E levels \in EncoderLevelLists :
    Constructed(C("g"), TRUE, [n \in CatNames |-> IF n = "g" THEN levels ELSE None])

ExtractColumnsCall(expr, data, drop_dummy, update_levels, multicolinearity_drop) ==
  /\ Waiting
  /\ \E r \in {ExtractColumns(expr, data, drop_dummy, update_levels, multicolinearity_drop,
                            categorical_levels, term_levels)} :
      /\ categorical_levels' = r.reg
      /\ term_levels' = r.tl
      /\ out' = [op |-> "extract_columns", expr |-> expr, data |-> data,
                 drop_dummy |-> drop_dummy, update_levels |-> update_levels,
                 multicolinearity_drop |-> multicolinearity_drop,
                 reg_before |-> categorical_levels, tl_before |-> term_levels,
                 status |-> r.status, frame |-> r.frame]
      /\ UNCHANGED <<config, artifacts, pc, local>>

NextEnc ==
  \/ \E c \in EncoderCalls, data \in EncoderTables, ul \in BOOLEAN :
       ExtractColumnsCall(c[1], data, c[2], ul, c[3])
  \/ TakeResult

SpecEnc == InitEnc /\ [][NextEnc]_vars

(***************************************************************************)
(* _fit, statement by statement.  Self is the instance as a record; a step *)
(* maps the instance and the locals of the running call to what the        *)
(* statement at pc leaves.                                                 *)
(***************************************************************************)
Self ==
  [categorical_levels |-> categorical_levels, term_levels |-> term_levels,
   training_data |-> training_data, ex |-> ex, re |-> re,
   training_x |-> training_x, training_x_means |-> training_x_means,
   training_y |-> training_y, training_y_mean |-> training_y_mean,
   bhat |-> bhat, fitted |-> fitted, residuals |-> residuals,
   std_err_est |-> std_err_est, var |-> var, std_err_vars |-> std_err_vars,
   t_vals |-> t_vals, p_vals |-> p_vals]

\* the instance becomes the record m
Becomes(m) ==
  /\ categorical_levels' = m.categorical_levels /\ term_levels' = m.term_levels
  /\ training_data' = m.training_data /\ ex' = m.ex /\ re' = m.re
  /\ training_x' = m.training_x /\ training_x_means' = m.training_x_means
  /\ training_y' = m.training_y /\ training_y_mean' = m.training_y_mean
  /\ bhat' = m.bhat /\ fitted' = m.fitted /\ residuals' = m.residuals
  /\ std_err_est' = m.std_err_est /\ var' = m.var /\ std_err_vars' = m.std_err_vars
  /\ t_vals' = m.t_vals /\ p_vals' = m.p_vals

InterceptName == <<"Intercept">>

\* Identity(response): the response collapsed to one column
IdentityOf(t) == [type |-> "Identity", name |-> t.name, method |-> "", terms |-> <<t>>]
ResponseTerm == Q("y")

\* expr.evaluate(data, fit): the expression through the term encoder, the
\* registry written only when fitting
Evaluate(expr, data, fit, reg, tl) ==
  IF expr.type = "Identity"
  THEN ExtractColumns(expr.terms[1], data, TRUE, fit, TRUE, reg, tl)
  ELSE ExtractColumns(expr, data, TRUE, fit, TRUE, reg, tl)

\* given_ex.copy(): fresh terms, each Categorical with the level list it was built with
CopyLevels(levels) == levels

\* expr.interpret(data): the terms here are typed already
Interpret(expr, data) == expr

RatRows(rows) == [i \in DOMAIN rows |-> [j \in DOMAIN rows[i] |-> Int2Rat(rows[i][j])]]

\* DataFrame.mean(): the mean of every column
ColumnMeans(frame) ==
  [j \in DOMAIN frame.names |->
     RDiv(RSum([i \in DOMAIN frame.rows |-> Int2Rat(frame.rows[i][j])]),
          Int2Rat(Len(frame.rows)))]

\* X - X_means
Centered(rows, means) ==
  [i \in DOMAIN rows |-> [j \in DOMAIN rows[i] |-> RSub(rows[i][j], means[j])]]

\* np.identity(n)
IdentityMatrix(n) == [i \in 1..n |-> [j \in 1..n |-> Int2Rat(IF i = j THEN 1 ELSE 0)]]

FitLabels == <<"l69", "l70", "l73", "l75", "l81", "l83", "l86", "l88", "l97", "l100",
               "l111", "l112", "l115", "l118", "l122", "l126", "l129", "l130">>

NextLabel(l) ==
  LET i == CHOOSE k \in DOMAIN FitLabels : FitLabels[k] = l
  IN  IF i = Len(FitLabels) THEN "idle" ELSE FitLabels[i + 1]

NewLocals(data) == [data |-> data, X |-> Unset, X_means |-> Unset,
                    y |-> Unset, y_mean |-> Unset]

Running(m, loc) == [self |-> m, local |-> loc, done |-> "running"]
Raised(m, what) == [self |-> m, local |-> Unset, done |-> what]

\* line 97: the coefficients of the (centered) normal equations
SolveNormal(X, y, X_means, y_mean, icpt) ==
  LET k  == Len(X.names)
      Xr == IF icpt THEN Centered(RatRows(X.rows), X_means) ELSE RatRows(X.rows)
      yr == IF icpt THEN Centered(RatRows(y.rows), y_mean) ELSE RatRows(y.rows)
      Xt == MatT(Xr, k)
  IN  Solve(MatMul(Xt, Xr, k), MatMul(Xt, yr, 1), 1)

\* lines 101-102: X with the column of ones
WithIntercept(X, icpt) ==
  IF icpt
  THEN [names |-> Append(X.names, InterceptName),
        rows  |-> [i \in DOMAIN X.rows |-> Append(X.rows[i], 1)]]
  ELSE X

\* lines 107-108
RowsOf(X) == Len(X.rows)
PredictorsOf(X, icpt) == Len(X.names) - (IF icpt THEN 1 ELSE 0)

\* a slip: the intercept's degree of freedom is not taken off
ErrorDfOfSlopesOnly(n, p) == n - p

\* line 115: the degrees of freedom of the residual standard error
ErrorDf(n, p) == n - p - 1

SumSquares(s) == RSum([i \in DOMAIN s |-> RMul(s[i], s[i])])

\* x ** 2 of a square root: the radicand, and nan for the root of a negative
Squared(root) ==
  IF IsFinite(root.sqrt_of) /\ root.sqrt_of[1] >= 0 THEN root.sqrt_of ELSE NonFinite

\* lines 81-82 and 86-87: the frame r of an evaluate() call and its column
\* means become locals; the call has written the registry
Evaluated(m, loc, r, explanatory) ==
  LET m2 == [m EXCEPT !.categorical_levels = r.reg, !.term_levels = r.tl]
  IN  IF r.status # "ok" THEN Raised(m2, r.status)
      ELSE IF explanatory
      THEN Running(m2, [loc EXCEPT !.X = r.frame, !.X_means = ColumnMeans(r.frame)])
      ELSE Running(m2, [loc EXCEPT !.y = r.frame, !.y_mean = ColumnMeans(r.frame)])

\* lines 97-98: the solution r of the normal equations, indexed by X.columns
Coefficients(m, loc, r) ==
  IF r.status # "ok" THEN Raised(m, r.status)
  ELSE Running([m EXCEPT !.bhat =
                  [names |-> loc.X.names,
                   values |-> [j \in DOMAIN r.x |-> r.x[j][1]]]], loc)

\* line 119: the solution r for the covariance matrix, a bare array
Covariance(m, loc, r) ==
  IF r.status # "ok" THEN Raised(m, r.status)
  ELSE Running([m EXCEPT !.var = [labelled |-> FALSE, names |-> <<>>, m |-> r.x]], loc)

FitStep(m, loc, l, icpt, formula, levels) ==
  LET Xi == WithIntercept(loc.X, icpt)
      n  == RowsOf(Xi)
      p  == PredictorsOf(Xi, icpt)
  IN
  CASE l = "l69" -> Running([m EXCEPT !.categorical_levels = EmptyRegistry], loc)
    [] l = "l70" -> Running([m EXCEPT !.training_data = [rows |-> loc.data]], loc)
    [] l = "l73" -> Running([m EXCEPT !.ex = Interpret(formula, loc.data),
                                      !.term_levels = CopyLevels(levels)], loc)
    [] l = "l75" -> Running([m EXCEPT !.re = Interpret(IdentityOf(ResponseTerm), loc.data)], loc)
    [] l = "l81" ->
         Evaluated(m, loc,
                   Evaluate(m.ex, loc.data, TRUE, m.categorical_levels, m.term_levels),
                   TRUE)
    [] l = "l83" -> Running([m EXCEPT !.training_x = loc.X,
                                      !.training_x_means = [values |-> loc.X_means]], loc)
    [] l = "l86" ->
         Evaluated(m, loc,
                   Evaluate(m.re, loc.data, TRUE, m.categorical_levels, m.term_levels),
                   FALSE)
    [] l = "l88" -> Running([m EXCEPT !.training_y = loc.y,
                                      !.training_y_mean = [values |-> loc.y_mean]], loc)
    [] l = "l97" ->
         Coefficients(m, loc, SolveNormal(loc.X, loc.y, loc.X_means, loc.y_mean, icpt))
    [] l = "l100" ->
         IF icpt
         THEN Running([m EXCEPT !.bhat =
                         [names |-> Append(m.bhat.names, InterceptName),
                          values |-> Append(m.bhat.values,
                                            RSub(loc.y_mean[1],
                                                 RDot(loc.X_means, m.bhat.values)))]], loc)
         ELSE Running(m, loc)
    [] l = "l111" ->
         Running([m EXCEPT !.fitted =
                    [values |-> [i \in DOMAIN Xi.rows |->
                                   RDot(RatRows(Xi.rows)[i], m.bhat.values)]]], loc)
    [] l = "l112" ->
         Running([m EXCEPT !.residuals =
                    [values |-> [i \in DOMAIN loc.y.rows |->
                                   RSub(Int2Rat(loc.y.rows[i][1]), m.fitted.values[i])]]], loc)
    [] l = "l115" ->
         Running([m EXCEPT !.std_err_est =
                    [sqrt_of |-> RDiv(SumSquares(m.residuals.values), Int2Rat(ErrorDf(n, p)))]], loc)
    [] l = "l118" ->
         LET k  == Len(Xi.names)
             Xr == RatRows(Xi.rows)
             s2 == Squared(m.std_err_est)
         IN  Covariance(m, loc,
               Solve(MatMul(MatT(Xr, k), Xr, k),
                     [i \in 1..k |-> [j \in 1..k |-> RMul(s2, IdentityMatrix(k)[i][j])]], k))
    [] l = "l122" ->
         Running([m EXCEPT !.std_err_vars =
                    [names |-> m.bhat.names,
                     values |-> [j \in DOMAIN m.var.m |-> [sqrt_of |-> m.var.m[j][j]]]]], loc)
    [] l = "l126" ->
         Running([m EXCEPT !.var = [labelled |-> TRUE, names |-> Xi.names, m |-> m.var.m]], loc)
    [] l = "l129" ->
         Running([m EXCEPT !.t_vals =
                    [names |-> m.bhat.names,
                     values |-> [j \in DOMAIN m.bhat.values |->
                                   [num |-> m.bhat.values[j],
                                    den |-> m.std_err_vars.values[j]]]]], loc)
    [] l = "l130" ->
         [self |-> [m EXCEPT !.p_vals =
                      [names |-> m.bhat.names,
                       values |-> [j \in DOMAIN m.t_vals.values |->
                                     [two_sided_t_cdf_of |-> m.t_vals.values[j],
                                      df |-> ErrorDf(n, p)]]]],
          local |-> Unset, done |-> "ok"]

RECURSIVE RunFit(_, _, _, _, _, _)
\* after statement l left r: the next statement, or the return or the exception
Continue(r, l, icpt, formula, levels) ==
  IF r.done = "running"
  THEN RunFit(r.self, r.local, NextLabel(l), icpt, formula, levels)
  ELSE r

\* the statements from l on, to the return or the exception
RunFit(m, loc, l, icpt, formula, levels) ==
  Continue(FitStep(m, loc, l, icpt, formula, levels), l, icpt, formula, levels)

\* lines 59-135: fit(data) from call to return
FitResult(m, data) ==
  RunFit(m, NewLocals(data), "l69", intercept, given_ex, given_levels)

Fit(data) ==
  /\ pc = "idle" /\ Waiting
  /\ \E r \in {FitResult(Self, data)} :
         /\ Becomes(r.self)
         /\ out' = [op |-> "fit", status |-> r.done]
  /\ UNCHANGED <<config, pc, local>>

(***************************************************************************)
(* The readers.  A probability is a rational; None is the empty sequence.  *)
(***************************************************************************)
NoArg == <<>>
One == Int2Rat(1)
DefaultAlpha == Rat(5, 100)

\* the position of name in a sequence of names
IndexOf(names, name) == CHOOSE j \in DOMAIN names : names[j] = name

\* X.dot(self.bhat).sum(axis = 1): the frames are aligned on the names, which
\* must be the same on both sides
DotCoefficients(X, coef) ==
  [i \in DOMAIN X.rows |->
     RSum([j \in DOMAIN X.names |->
             RMul(Int2Rat(X.rows[i][j]), coef.values[IndexOf(coef.names, X.names[j])])])]

\* (X_new.dot(self.var) * X_new).sum(axis = 1)
QuadraticForm(X, v) ==
  [i \in DOMAIN X.rows |->
     RSum([j \in DOMAIN X.names |->
       RSum([k \in DOMAIN X.names |->
         RMul(RMul(Int2Rat(X.rows[i][j]),
                   v.m[IndexOf(v.names, X.names[j])][IndexOf(v.names, X.names[k])]),
              Int2Rat(X.rows[i][k]))])])]

\* lines 180-182
GetSse(m) ==
  SumSquares([i \in DOMAIN m.training_y.rows |->
                RSub(Int2Rat(m.training_y.rows[i][1]), m.fitted.values[i])])

\* lines 217-226
PredictionIntervalWidth(m, X_new, alpha) ==
  LET n == Len(m.training_x.rows)
      p == Len(X_new.names)
      mse == RDiv(GetSse(m), Int2Rat(n - p))
      s_yhat_squared == QuadraticForm(X_new, m.var)
  IN  [i \in DOMAIN X_new.rows |->
         [crit |-> [dist |-> "t", prob |-> RSub(One, RDiv(alpha, Int2Rat(2))),
                    df1 |-> n - p, df2 |-> 0],
          crit_scale |-> One,
          sqrt_of |-> RAdd(mse, s_yhat_squared[i])]]

\* lines 228-234
ConfidenceIntervalWidth(m, X_new, alpha) ==
  LET n == Len(m.training_x.rows)
      p == Len(X_new.names)
      s_yhat_squared == QuadraticForm(X_new, m.var)
  IN  [i \in DOMAIN X_new.rows |->
         [crit |-> [dist |-> "f", prob |-> RSub(One, RDiv(alpha, Int2Rat(2))),
                    df1 |-> p, df2 |-> n - p],
          crit_scale |-> Int2Rat(p),
          sqrt_of |-> s_yhat_squared[i]]]

\* lines 171-172: y_vals - widths and y_vals + widths; no y_vals is bound in
\* predict or in the module, so the first of them raises NameError
IntervalBounds(predictions, widths) ==
  [status |-> "NameError", lower |-> <<>>, upper |-> <<>>]

PredictOut(status, X, predictions, widths, lower, upper, m) ==
  [status |-> status, columns |-> X.names, predictions |-> predictions,
   widths |-> widths, lower |-> lower, upper |-> upper, self |-> m]

\* lines 163-172: the widths of the interval asked for and the bounds
PredictInterval(m, m2, X, predictions, confidence_interval, alpha) ==
  LET widths == IF confidence_interval
                THEN ConfidenceIntervalWidth(m, X, alpha)
                ELSE PredictionIntervalWidth(m, X, alpha)
      b == IntervalBounds(predictions, widths)
  IN  PredictOut(b.status, X, predictions, <<>>, b.lower, b.upper, m2)

\* lines 158-178: the design matrix X of the data times the coefficients
PredictFrom(m, m2, X, confidence_interval, prediction_interval, alpha) ==
  IF m.bhat = Unset
  THEN PredictOut("AttributeError", X, <<>>, <<>>, <<>>, <<>>, m2)
  ELSE IF Range(X.names) # Range(m.bhat.names)
  THEN PredictOut("not-aligned", X, <<>>, <<>>, <<>>, <<>>, m2)
  ELSE IF confidence_interval \/ prediction_interval
  THEN PredictInterval(m, m2, X, DotCoefficients(X, m.bhat), confidence_interval, alpha)
  ELSE PredictOut("ok", X, DotCoefficients(X, m.bhat), <<>>, <<>>, <<>>, m2)

\* a slip: predict keeps the matrix it built as the model's training_x
PredictEvaluatedKeepingX(m, r, confidence_interval, prediction_interval, alpha, icpt) ==
  IF r.status # "ok"
  THEN PredictOut(r.status, NoFrame, <<>>, <<>>, <<>>, <<>>, m)
  ELSE PredictFrom(m, [m EXCEPT !.training_x = r.frame],
                   WithIntercept(r.frame, icpt),
                   confidence_interval, prediction_interval, alpha)

\* line 157: what evaluate() returned, r, and the registry it left
PredictEvaluated(m, r, confidence_interval, prediction_interval, alpha, icpt) ==
  IF r.status # "ok"
  THEN PredictOut(r.status, NoFrame, <<>>, <<>>, <<>>, <<>>,
                  [m EXCEPT !.categorical_levels = r.reg, !.term_levels = r.tl])
  ELSE PredictFrom(m, [m EXCEPT !.categorical_levels = r.reg, !.term_levels = r.tl],
                   WithIntercept(r.frame, icpt),
                   confidence_interval, prediction_interval, alpha)

\* lines 155-178; self is the instance as the call leaves it
Predict(m, data, confidence_interval, prediction_interval, alpha, icpt) ==
  IF m.ex = Unset
  THEN PredictOut("AttributeError", NoFrame, <<>>, <<>>, <<>>, <<>>, m)
  ELSE PredictEvaluated(m, Evaluate(m.ex, data, FALSE, m.categorical_levels, m.term_levels),
                        confidence_interval, prediction_interval, alpha, icpt)

\* lines 204-211: the two quotients of r_squared
RSquaredQuotient(sse, ssto, n, columns, adjusted) ==
  IF adjusted
  THEN RDiv(sse, ssto)
  ELSE RDiv(RDiv(sse, Int2Rat(n - columns - 2)), RDiv(ssto, Int2Rat(n - 1)))

\* lines 199-211: the sums of squares of y about the predictions pred and
\* about its mean
RSquaredOf(m, pred, adjusted) ==
  LET y    == [i \in DOMAIN m.training_y.rows |-> Int2Rat(m.training_y.rows[i][1])]
      mean == RDiv(RSum(y), Int2Rat(Len(y)))
      sse  == SumSquares([i \in DOMAIN y |-> RSub(y[i], pred.predictions[i])])
      ssto == SumSquares([i \in DOMAIN y |-> RSub(y[i], mean)])
  IN  IF pred.status # "ok"
      THEN [status |-> pred.status, value |-> NonFinite, self |-> pred.self]
      ELSE IF Len(pred.predictions) # Len(y)
      THEN [status |-> "ok", value |-> NonFinite, self |-> pred.self]
      ELSE [status |-> "ok",
            value |-> RSub(One, RSquaredQuotient(sse, ssto, Len(y),
                                                 Len(m.training_x.names), adjusted)),
            self |-> pred.self]

\* lines 192-211, with X and y left to their defaults
RSquared(m, adjusted, icpt) ==
  IF m.training_data = Unset \/ m.training_y = Unset \/ m.training_x = Unset
  THEN [status |-> "AttributeError", value |-> NonFinite, self |-> m]
  ELSE RSquaredOf(m, Predict(m, m.training_data.rows, FALSE, FALSE, DefaultAlpha, icpt),
                  adjusted)

\* lines 213-215
Score(m, adjusted, icpt) == RSquared(m, adjusted, icpt)

\* lines 138-141: the alpha the interval is computed for
ResolveAlpha(alpha, conf) ==
  IF alpha = NoArg
  THEN RSub(One, IF conf = NoArg THEN Rat(95, 100) ELSE conf[1])
  ELSE alpha[1]

\* lines 137-153
ConfidenceIntervals(m, alpha, conf) ==
  IF m.training_x = Unset \/ m.bhat = Unset \/ m.std_err_vars = Unset
  THEN [status |-> "AttributeError", alpha |-> NonFinite, crit_prob |-> NonFinite,
        df |-> 0, lower |-> <<>>, upper |-> <<>>]
  ELSE
  LET a == ResolveAlpha(alpha, conf)
      crit_prob == RSub(One, RDiv(a, Int2Rat(2)))
      df == Len(m.training_x.rows) - Len(m.bhat.values)
      width(j) == [crit |-> [dist |-> "t", prob |-> crit_prob, df |-> df],
                   se |-> m.std_err_vars.values[j]]
  IN  [status |-> "ok", alpha |-> a, crit_prob |-> crit_prob, df |-> df,
       lower |-> [j \in DOMAIN m.bhat.values |->
                    [center |-> m.bhat.values[j], minus |-> width(j)]],
       upper |-> [j \in DOMAIN m.bhat.values |->
                    [center |-> m.bhat.values[j], plus |-> width(j)]]]

(***************************************************************************)
(* The calls a single-threaded program makes on one instance.              *)
(***************************************************************************)
PredictCall(data, confidence_interval, prediction_interval) ==
  /\ pc = "idle" /\ Waiting
  /\ \E r \in {Predict(Self, data, confidence_interval, prediction_interval,
                       DefaultAlpha, intercept)} :
         /\ Becomes(r.self)
         /\ out' = [op |-> "predict", data |-> data,
                    confidence_interval |-> confidence_interval,
                    prediction_interval |-> prediction_interval,
                    status |-> r.status, columns |-> r.columns,
                    predictions |-> r.predictions, widths |-> r.widths,
                    lower |-> r.lower, upper |-> r.upper]
  /\ UNCHANGED <<config, pc, local>>

RSquaredCall(adjusted) ==
  /\ pc = "idle" /\ Waiting
  /\ \E r \in {RSquared(Self, adjusted, intercept)} :
         /\ Becomes(r.self)
         /\ out' = [op |-> "r_squared", adjusted |-> adjusted,
                    status |-> r.status, value |-> r.value]
  /\ UNCHANGED <<config, pc, local>>

ScoreCall(adjusted) ==
  /\ pc = "idle" /\ Waiting
  /\ \E r \in {Score(Self, adjusted, intercept)} :
         /\ Becomes(r.self)
         /\ out' = [op |-> "score", adjusted |-> adjusted,
                    status |-> r.status, value |-> r.value]
  /\ UNCHANGED <<config, pc, local>>

AlphaArgs == {NoArg, <<Rat(1, 10)>>}
ConfArgs == {NoArg, <<Rat(99, 100)>>}

ConfidenceIntervalsCall(alpha, conf) ==
  /\ pc = "idle" /\ Waiting
  /\ \E r \in {ConfidenceIntervals(Self, alpha, conf)} :
         out' = [op |-> "confidence_intervals", alpha_arg |-> alpha, conf_arg |-> conf,
                 status |-> r.status, alpha |-> r.alpha, crit_prob |-> r.crit_prob,
                 df |-> r.df, lower |-> r.lower, upper |-> r.upper]
  /\ UNCHANGED <<config, term_levels, categorical_levels, artifacts, pc, local>>

\* the formulas a model is built with
Formulas ==
  { Q("x"),
    Combination(<<Q("x"), C("g")>>),
    Interaction(<<C("g"), C("h")>>) }

\* LinearModel(explanatory, response, intercept): the models built
Models ==
  {<<f, TRUE>> : f \in Formulas} \cup {<<Q("x"), FALSE>>}

Init ==
  \E mdl \in Models :
    Constructed(mdl[1], mdl[2], [n \in CatNames |-> None])

Next ==
  \/ \E data \in Tables : Fit(data)
  \/ \E data \in PredictTables, ci \in BOOLEAN, pi \in BOOLEAN : PredictCall(data, ci, pi)
  \/ \E adjusted \in BOOLEAN : RSquaredCall(adjusted)
  \/ \E adjusted \in BOOLEAN : ScoreCall(adjusted)
  \/ \E alpha \in AlphaArgs, conf \in ConfArgs : ConfidenceIntervalsCall(alpha, conf)
  \/ TakeResult

Spec == Init /\ [][Next]_vars

(***************************************************************************)
(* A fit running in one thread while another thread reads the instance:    *)
(* _fit advances a statement at a time and the readers run between any two *)
(* statements; nothing in the class serialises them.                       *)
(***************************************************************************)
ConcurrentModel == <<Combination(<<Q("x"), C("g")>>), TRUE>>

InitConc ==
  Constructed(ConcurrentModel[1], ConcurrentModel[2], [n \in CatNames |-> None])

\* the tables a concurrent fit is given
ConcurrentTables == {t \in Tables : Len(t) >= 3}

FitBegin(data) ==
  /\ pc = "idle" /\ Waiting
  /\ pc' = FitLabels[1]
  /\ local' = NewLocals(data)
  /\ UNCHANGED <<config, term_levels, categorical_levels, artifacts, out>>

FitStatement ==
  /\ pc # "idle" /\ Waiting
  /\ \E r \in {FitStep(Self, local, pc, intercept, given_ex, given_levels)} :
       /\ Becomes(r.self)
       /\ pc' = IF r.done = "running" THEN NextLabel(pc) ELSE "idle"
       /\ local' = IF r.done = "running" THEN r.local ELSE [returned |-> r.done]
  /\ UNCHANGED <<config, out>>

\* a read of the stored accessors
ReadAccessors ==
  /\ Waiting
  /\ out' = [op |-> "read", seen |-> Self, during |-> pc]
  /\ UNCHANGED <<config, term_levels, categorical_levels, artifacts, pc, local>>

PredictConcurrently(data) ==
  /\ Waiting
  /\ \E r \in {Predict(Self, data, FALSE, FALSE, DefaultAlpha, intercept)} :
       /\ Becomes(r.self)
       /\ out' = [op |-> "predict", seen |-> Self, during |-> pc,
                  data |-> data, status |-> r.status, columns |-> r.columns,
                  predictions |-> r.predictions]
  /\ UNCHANGED <<config, pc, local>>

NextConc ==
  \/ \E data \in ConcurrentTables : FitBegin(data)
  \/ FitStatement
  \/ ReadAccessors
  \/ \E data \in PredictTables : PredictConcurrently(data)
  \/ TakeResult

SpecConc == InitConc /\ [][NextConc]_vars

(***************************************************************************)
(* What a fit leaves when it returns.                                      *)
(***************************************************************************)
ConstructedSelf ==
  [categorical_levels |-> EmptyRegistry, term_levels |-> given_levels,
   training_data |-> Unset, ex |-> Unset, re |-> Unset,
   training_x |-> Unset, training_x_means |-> Unset,
   training_y |-> Unset, training_y_mean |-> Unset,
   bhat |-> Unset, fitted |-> Unset, residuals |-> Unset,
   std_err_est |-> Unset, var |-> Unset, std_err_vars |-> Unset,
   t_vals |-> Unset, p_vals |-> Unset]

\* fit(data) on the instance as constructed, to its return or its exception
FreshFit(data) == FitResult(ConstructedSelf, data)

\* every field of m is what one completed fit(m.training_data) stores
FromOneFit(m) ==
  /\ m.training_data # Unset
  /\ \E r \in {FreshFit(m.training_data.rows)} : r.done = "ok" /\ r.self = m

\* every field of m is as one fit call alone leaves it, or as constructed
Coherent(m) ==
  \/ m = ConstructedSelf
  \/ /\ m.training_data # Unset
     /\ m = FreshFit(m.training_data.rows).self

(***************************************************************************)
(* Claims about the calls of a single-threaded program, checked under Spec.*)
(***************************************************************************)
Returned(op) == out # Unset /\ out.op = op

\* the last call was a predict on a fitted model whose data the model encodes
\* into the columns of its coefficients
PredictedOnFitted ==
  /\ Returned("predict")
  /\ FromOneFit(Self)
  /\ Predict(Self, out.data, FALSE, FALSE, DefaultAlpha, intercept).status = "ok"

\* C1: with exactly one of confidence_interval / prediction_interval set,
\* predict on a fitted model returns, and its bounds are the prediction minus
\* and plus the interval half-width, row by row.
C1_IntervalBoundsAroundPrediction ==
  (PredictedOnFitted /\ (out.confidence_interval # out.prediction_interval))
  => /\ out.status = "ok"
     /\ Len(out.widths) = Len(out.predictions)
     /\ out.lower = [i \in DOMAIN out.predictions |->
                       [center |-> out.predictions[i], minus |-> out.widths[i]]]
     /\ out.upper = [i \in DOMAIN out.predictions |->
                       [center |-> out.predictions[i], plus |-> out.widths[i]]]

\* C2: predict with both interval flags set fails, and with an error of its
\* own: not the outcome the same call has with one of the flags alone.
C2_BothFlagsRejected ==
  (PredictedOnFitted /\ out.confidence_interval /\ out.prediction_interval)
  => /\ out.status # "ok"
     /\ out.status # Predict(Self, out.data, TRUE, FALSE, DefaultAlpha, intercept).status
     /\ out.status # Predict(Self, out.data, FALSE, TRUE, DefaultAlpha, intercept).status

\* the sums of squares of the training data about the fit and about the mean
TrainingSse == GetSse(Self)
TrainingSst ==
  LET y == [i \in DOMAIN training_y.rows |-> Int2Rat(training_y.rows[i][1])]
      mean == RDiv(RSum(y), Int2Rat(Len(y)))
  IN  SumSquares([i \in DOMAIN y |-> RSub(y[i], mean)])

\* C3: r_squared without adjusted is 1 - SSE/SST; the degrees of freedom scale
\* the two sums only with adjusted; score returns what r_squared returns.
C3_RSquaredUnadjustedByDefault ==
  ((Returned("r_squared") \/ Returned("score")) /\ FromOneFit(Self) /\ out.status = "ok")
  => LET n == Len(training_y.rows)
         k == Len(training_x.names)
     IN  /\ ~out.adjusted =>
               out.value = RSub(One, RDiv(TrainingSse, TrainingSst))
         /\ out.adjusted =>
               out.value = RSub(One, RDiv(RDiv(TrainingSse, Int2Rat(n - k - 2)),
                                          RDiv(TrainingSst, Int2Rat(n - 1))))
         /\ Returned("score") => out.value = RSquared(Self, out.adjusted, intercept).value

\* C4: confidence_intervals rejects a call that supplies alpha and conf; with
\* neither it uses alpha = 0.05, with conf alone alpha = 1 - conf.
C4_AlphaOrConfNotBoth ==
  (Returned("confidence_intervals") /\ FromOneFit(Self))
  => /\ (out.alpha_arg # NoArg /\ out.conf_arg # NoArg) => out.status # "ok"
     /\ (out.alpha_arg = NoArg /\ out.conf_arg = NoArg) =>
          out.status = "ok" /\ out.alpha = Rat(5, 100)
     /\ (out.alpha_arg = NoArg /\ out.conf_arg # NoArg) =>
          out.status = "ok" /\ out.alpha = RSub(One, out.conf_arg[1])

\* C5: between calls the stored state is what one fit call leaves, or all
\* unset; a fit that raised leaves nothing of its own next to the previous fit's.
C5_FitAllOrNothing == pc = "idle" => Coherent(Self)

\* C9: the columns predict encodes its data into are those of the fit, in the
\* same order: the index of the coefficients and of the covariance matrix.
C9_PredictColumnsAreFitColumns ==
  (/\ Returned("predict")
   /\ FromOneFit(Self)
   /\ ~out.confidence_interval /\ ~out.prediction_interval)
  => /\ out.status = "ok"
     /\ out.columns = bhat.names
     /\ out.columns = var.names

\* C11: with an intercept, n rows and p columns besides the intercept, the
\* residual standard error, every p-value and the critical value of
\* confidence_intervals use one number of degrees of freedom, n - p - 1, which
\* is n less the number of stored coefficients.
C11_OneDegreesOfFreedom ==
  (Returned("confidence_intervals") /\ FromOneFit(Self) /\ intercept)
  => LET n  == Len(training_x.rows)
         p  == Len(training_x.names)
         df == n - p - 1
     IN  /\ df = n - Len(bhat.values)
         /\ out.status = "ok"
         /\ out.df = df
         /\ \A j \in DOMAIN p_vals.values : p_vals.values[j].df = df
         /\ \A j \in DOMAIN out.lower : out.lower[j].minus.crit.df = df
         /\ std_err_est.sqrt_of = RDiv(SumSquares(residuals.values), Int2Rat(df))

\* three rows off the fitted line and one slope: one degree of freedom
C11_Witness ==
  /\ Returned("confidence_intervals") /\ FromOneFit(Self) /\ intercept
  /\ out.status = "ok"
  /\ Len(training_x.rows) = 3 /\ Len(training_x.names) = 1
  /\ out.df = 1
  /\ IsFinite(std_err_est.sqrt_of) /\ std_err_est.sqrt_of[1] > 0

\* C12: predict, r_squared, score and confidence_intervals, returning or
\* raising, leave every fit artifact and the level registry as they were; only
\* fit changes them.
C12_ReadersChangeNothing ==
  [][(out' # Unset /\ out'.op # "fit") => UNCHANGED <<categorical_levels, artifacts>>]_vars

\* a predict that returned on a fitted model with a registry of two terms, for
\* data other than the training data
C12_Witness ==
  /\ Returned("predict") /\ out.status = "ok"
  /\ FromOneFit(Self)
  /\ DOMAIN categorical_levels = {"g", "h"}
  /\ out.data # training_data.rows

(***************************************************************************)
(* The claim about a reader running during a fit, checked under SpecConc.  *)
(***************************************************************************)
\* C6: what a reader sees while a fit runs is never a mix of the previous
\* fit's artifacts and those of the fit in progress: a reader that sees the
\* artifacts of a completed fit sees all of them from that one fit.
C6_ReaderSeesOneFit ==
  (/\ out # Unset
   /\ out.op \in {"read", "predict"}
   /\ out.seen.p_vals # Unset)
  => FromOneFit(out.seen)

(***************************************************************************)
(* Claims about the encoder, checked under SpecEnc.                        *)
(***************************************************************************)
\* the last call was extract_columns on the one-hot term g and returned a frame
EncodedG == /\ out # Unset
            /\ out.op = "extract_columns"
            /\ out.expr = C("g")
            /\ out.status = "ok"

ColumnName(name, level) == <<name \o "::" \o level>>

\* the positions of the columns of the frame that are called name
PositionsOf(frame, name) == {j \in DOMAIN frame.names : frame.names[j] = name}

\* C7: a registry level absent from the prediction data keeps its column, all
\* 0; a row whose level is not in the registry (which holds no catch-all) makes
\* the call fail instead of being encoded as all-zero dummies.
C7_UnknownLevelIsAnError ==
  (/\ out # Unset
   /\ out.op = "extract_columns"
   /\ out.expr = C("g")
   /\ ~out.update_levels
   /\ "g" \in DOMAIN out.reg_before
   /\ Other \notin Range(out.reg_before["g"]))
  => LET known == Range(out.reg_before["g"])
         seen  == {out.data[i]["g"] : i \in DOMAIN out.data}
         kept  == IF out.drop_dummy THEN known \ {out.reg_before["g"][1]} ELSE known
     IN  IF seen \subseteq known
         THEN /\ out.status = "ok"
              /\ \A l \in kept \ seen :
                   /\ Cardinality(PositionsOf(out.frame, ColumnName("g", l))) = 1
                   /\ \A j \in PositionsOf(out.frame, ColumnName("g", l)) :
                        \A i \in DOMAIN out.frame.rows : out.frame.rows[i][j] = 0
         ELSE out.status \notin {"ok", "none", "nan"}

\* C8: with an explicit level list L and data holding a value outside L, the
\* encoding has exactly one column g::~other~, which is 1 exactly on the rows
\* whose value is not in L: at fit time (L is the term's list, the registry has
\* no entry yet) and when the entry written at fit time is reused.
C8_OtherColumnMarksUnlistedRows ==
  (/\ out # Unset
   /\ out.op = "extract_columns"
   /\ out.expr = C("g")
   /\ given_levels["g"] # None
   /\ \/ /\ "g" \notin DOMAIN out.reg_before
         /\ out.update_levels
         /\ out.tl_before["g"] = given_levels["g"]
      \/ "g" \in DOMAIN out.reg_before /\ ~out.update_levels
   /\ \E i \in DOMAIN out.data : out.data[i]["g"] \notin Range(given_levels["g"]))
  => /\ out.status = "ok"
     /\ Cardinality(PositionsOf(out.frame, ColumnName("g", Other))) = 1
     /\ \A j \in PositionsOf(out.frame, ColumnName("g", Other)) :
          \A i \in DOMAIN out.frame.rows :
            out.frame.rows[i][j] =
              (IF out.data[i]["g"] \notin Range(given_levels["g"]) THEN 1 ELSE 0)

\* the level list the last call resolved for g
ResolvedG == ResolveLevels(out.expr, out.data, out.reg_before, out.tl_before).levels

\* C10: k resolved levels and drop_dummy give the k-1 columns of the levels after
\* the first, in level order; no row has more than one 1 and a row of the first
\* level has none.  Without drop_dummy all k columns are returned and a row of a
\* known level has exactly one 1.
C10_OneHotShape ==
  EncodedG =>
    LET lv == ResolvedG
        k  == Len(lv)
        f  == out.frame
    IN  /\ \A i \in DOMAIN f.rows :
             /\ \A j \in DOMAIN f.rows[i] : f.rows[i][j] \in {0, 1}
             /\ SumSeq(f.rows[i]) <= 1
        /\ out.drop_dummy =>
             /\ f.names = [j \in 1..(k - 1) |-> ColumnName("g", lv[j + 1])]
             /\ \A i \in DOMAIN f.rows :
                  out.data[i]["g"] = lv[1] => SumSeq(f.rows[i]) = 0
        /\ ~out.drop_dummy =>
             /\ f.names = [j \in 1..k |-> ColumnName("g", lv[j])]
             /\ \A i \in DOMAIN f.rows :
                  out.data[i]["g"] \in Range(lv) =>
                    /\ SumSeq(f.rows[i]) = 1
                    /\ \A j \in 1..k : f.rows[i][j] = 1 <=> out.data[i]["g"] = lv[j]

\* three levels, the reference level dropped, a row of the reference level
C10_Witness ==
  /\ EncodedG
  /\ out.drop_dummy
  /\ Len(ResolvedG) = 3
  /\ Len(out.frame.names) = 2
  /\ \E i \in DOMAIN out.frame.rows : out.data[i]["g"] = ResolvedG[1]
  /\ \E i \in DOMAIN out.frame.rows : SumSeq(out.frame.rows[i]) = 1

\* the last call was extract_columns on the interaction of g and h and returned
EncodedInteraction == /\ out # Unset
                      /\ out.op = "extract_columns"
                      /\ out.expr = Interaction(<<C("g"), C("h")>>)
                      /\ out.status = "ok"

\* the two operands encoded as the call encodes them: all levels kept, the
\* second seeing the registry as the first left it
OperandG ==
  ExtractColumns(C("g"), out.data, FALSE, out.update_levels, out.multicolinearity_drop,
                 out.reg_before, out.tl_before)
OperandH ==
  ExtractColumns(C("h"), out.data, FALSE, out.update_levels, out.multicolinearity_drop,
                 OperandG.reg, OperandG.tl)

\* the pairs <<column of g, column of h>> in product order, then those of
\* them whose product is not 0 in every row when the pruning is asked for
ProductPairs ==
  LET ng == Len(OperandG.frame.names)
      nh == Len(OperandH.frame.names)
  IN  [k \in 1..(ng * nh) |-> <<((k - 1) \div nh) + 1, ((k - 1) % nh) + 1>>]
RemainingPairs ==
  SelectSeq(ProductPairs,
            LAMBDA q : \/ ~out.multicolinearity_drop
                       \/ \E i \in DOMAIN out.data :
                            OperandG.frame.rows[i][q[1]] * OperandH.frame.rows[i][q[2]] # 0)

C13_WitnessSingle ==
  /\ EncodedInteraction
  /\ Len(RemainingPairs) = 1
  /\ Len(out.frame.names) = 1

\* C14: extract_columns leaves the term as it was: the term's own level list
\* after the call is the list before it, and the call returns what it returns
\* for the term as it was built, whatever the term encoded earlier.
C14_TermUnchanged ==
  (/\ out # Unset
   /\ out.op = "extract_columns"
   /\ out.expr = C("g")
   /\ given_levels["g"] # None)
  => /\ term_levels = out.tl_before
     /\ \E r \in {ExtractColumns(out.expr, out.data, out.drop_dummy, out.update_levels,
                                 out.multicolinearity_drop, out.reg_before, given_levels)} :
          r.status = out.status /\ r.frame = out.frame

\* C15: extract_columns returns a table of columns or raises; it never ends
\* without a result, a Categorical term of another method than one-hot
\* included.
C15_TableOrError ==
  (out # Unset /\ out.op = "extract_columns") => out.status # "none"

====
